---- MODULE Spec2Model ----
(***************************************************************************)
(* Geodesic Flow Kernel (bob/learn/linear/GFK.py): GFKTrainer.train and    *)
(* its stages, and the operations of GFKMachine, as a state machine.       *)
(*                                                                         *)
(* Numbers.  Data, basis and orthogonal factor entries are exact integers.  *)
(* Angles and the kernel blocks are fixed point in units of 1/FP.  The     *)
(* diagonal factors Gam and Sig of the GSVD are exact rationals in units   *)
(* of 1/GUnit (so 3/5 and 4/5 satisfy the cosine/sine identity exactly).   *)
(* The float64 values of the normalisation (means, deviations, normalised  *)
(* data, the value of a call) are fractions [n, d] in lowest terms, with   *)
(* 1/0, -1/0 and 0/0 for +inf, -inf and nan; the rounding of float64 and   *)
(* the sign of zero are not represented.                                   *)
(*                                                                         *)
(* Interpreter.  python -O compiles assert statements away; whether the    *)
(* run is optimised is fixed when the interpreter starts.                  *)
(*                                                                         *)
(* Libraries.  scipy.linalg.svd, bob.math.gsvd and PCATrainer.train are    *)
(* not part of the file: their answers are chosen from the sets below.     *)
(***************************************************************************)
EXTENDS Integers, Sequences, FiniteSets, TLC

VARIABLES
    pc,        \* position of the session / of train() and _train_gfk()
    trainer,   \* the GFKTrainer's attributes (set by __init__)
    lib,       \* the answers the libraries give during this run
    loc,       \* the locals of train()
    gfk,       \* the locals of _train_gfk()
    machine,   \* the GFKMachine's instance attributes
    hdf5,      \* the HDF5 container: cwd, groups, datasets
    loaded,    \* the instance attributes of a GFKMachine(hdf5)
    result,    \* what the last operation returned or raised
    optimize   \* sys.flags.optimize > 0: the interpreter runs with -O

vars == <<pc, trainer, lib, loc, gfk, machine, hdf5, loaded, result, optimize>>

---------------------------------------------------------------------------
\* Bounds of the model.

\* largest feature dimensionality D of the data
MaxD == 4
\* largest principal_angles_dimension
MaxPAD == 2
\* largest entry of a variance spectrum
MaxVar == 4

---------------------------------------------------------------------------
\* Number representation.

\* one unit of the fixed point that stands for float64 angles and blocks
FP == 10000
\* denominator of the entries of Gam and Sig
GUnit == 5
Max(a, b) == IF a >= b THEN a ELSE b
Min(a, b) == IF a <= b THEN a ELSE b
Abs(a) == IF a < 0 THEN 0 - a ELSE a
Sign(a) == IF a > 0 THEN 1 ELSE IF a < 0 THEN 0 - 1 ELSE 0

RECURSIVE Gcd(_, _)
Gcd(a, b) == IF b = 0 THEN a ELSE Gcd(b, a % b)

\* the float64 value n / d: lowest terms, d >= 0; a zero d leaves the
\* sign of n (1/0 is +inf, -1/0 is -inf, 0/0 is nan)
Frac(n, d) ==
    IF d = 0 THEN [n |-> Sign(n), d |-> 0]
    ELSE LET g == Gcd(Abs(n), Abs(d))
         IN  [n |-> (Sign(d) * n) \div g, d |-> Abs(d) \div g]
\* the float64 of an integer
ToFloat(k) == [n |-> k, d |-> 1]
NaN == [n |-> 0, d |-> 0]
PosInf == [n |-> 1, d |-> 0]
NegInf == [n |-> 0 - 1, d |-> 0]
IsFinite(a) == a.d # 0

\* a + b, a - b, a * b and a / b on float64 (IEEE 754): nan propagates;
\* inf - inf, inf * 0, 0 / 0 and inf / inf are nan; a nonzero a over 0 is
\* the infinity of a's sign; a finite a over an infinity is 0
FAdd(a, b) ==
    IF a.d = 0 /\ b.d = 0 THEN (IF a = b THEN a ELSE NaN)
    ELSE Frac(a.n * b.d + b.n * a.d, a.d * b.d)
FSub(a, b) == FAdd(a, [n |-> 0 - b.n, d |-> b.d])
FMul(a, b) == Frac(a.n * b.n, a.d * b.d)
\* a * (1 / b): 1/0 is +inf, 1/inf is 0, 1/nan is nan
FDiv(a, b) == FMul(a, Frac(b.d, b.n))

RECURSIVE FSum(_, _)
FSum(f, n) == IF n = 0 THEN ToFloat(0) ELSE FAdd(FSum(f, n - 1), f[n])

RECURSIVE SumUpTo(_, _)
SumUpTo(f, n) == IF n = 0 THEN 0 ELSE f[n] + SumUpTo(f, n - 1)

\* integer square root
ISqrt(x) == CHOOSE r \in 0..x : r * r <= x /\ (r + 1) * (r + 1) > x
\* numpy.sqrt: exact on a fraction of two squares (every deviation of two
\* samples is one: |a - b| / 2), to 1 / (100 d) otherwise
FSqrt(a) ==
    IF a.d = 0 THEN (IF a = PosInf THEN PosInf ELSE NaN)
    ELSE IF a.n < 0 THEN NaN
    ELSE IF ISqrt(a.n) * ISqrt(a.n) = a.n /\ ISqrt(a.d) * ISqrt(a.d) = a.d
         THEN Frac(ISqrt(a.n), ISqrt(a.d))
    ELSE Frac(ISqrt(a.n * a.d * 10000), a.d * 100)

---------------------------------------------------------------------------
\* numpy arrays: a matrix is [nr, nc, a] with a[i][j], 1-based.

Mat(nr, nc, F(_, _)) ==
    [nr |-> nr, nc |-> nc, a |-> [i \in 1..nr |-> [j \in 1..nc |-> F(i, j)]]]

Zeros(r, c) == Mat(r, c, LAMBDA i, j : 0)
Eye(n) == Mat(n, n, LAMBDA i, j : IF i = j THEN 1 ELSE 0)
Diag(v, n) == Mat(n, n, LAMBDA i, j : IF i = j THEN v[i] ELSE 0)
Diagonal(A) == [i \in 1..Min(A.nr, A.nc) |-> A.a[i][i]]
Transpose(A) == Mat(A.nc, A.nr, LAMBDA i, j : A.a[j][i])
Neg(A) == Mat(A.nr, A.nc, LAMBDA i, j : 0 - A.a[i][j])
MAdd(A, B) == Mat(A.nr, A.nc, LAMBDA i, j : A.a[i][j] + B.a[i][j])
MSub(A, B) == Mat(A.nr, A.nc, LAMBDA i, j : A.a[i][j] - B.a[i][j])
Dot(A, B) ==
    Mat(A.nr, B.nc,
        LAMBDA i, j : SumUpTo([k \in 1..A.nc |-> A.a[i][k] * B.a[k][j]], A.nc))
\* numpy.dot on matrices of float64 fractions
FDot(A, B) ==
    Mat(A.nr, B.nc,
        LAMBDA i, j : FSum([k \in 1..A.nc |-> FMul(A.a[i][k], B.a[k][j])],
                           A.nc))
\* the float64 values of a matrix kept in units of 1/unit
Floats(A, unit) == Mat(A.nr, A.nc, LAMBDA i, j : Frac(A.a[i][j], unit))
HStack(A, B) ==
    Mat(A.nr, A.nc + B.nc,
        LAMBDA i, j : IF j <= A.nc THEN A.a[i][j] ELSE B.a[i][j - A.nc])
VStack(A, B) ==
    Mat(A.nr + B.nr, A.nc,
        LAMBDA i, j : IF i <= A.nr THEN A.a[i][j] ELSE B.a[i - A.nr][j])
\* A[:, 0:k]
ColsTo(A, k) == Mat(A.nr, Min(k, A.nc), LAMBDA i, j : A.a[i][j])
\* A[0:k, :]
RowsTo(A, k) == Mat(Min(k, A.nr), A.nc, LAMBDA i, j : A.a[i][j])
\* A[k:, :]
RowsFrom(A, k) == Mat(Max(A.nr - k, 0), A.nc, LAMBDA i, j : A.a[i + k][j])
\* numpy.sum(abs(A))
SumAbs(A) ==
    SumUpTo([i \in 1..A.nr |-> SumUpTo([j \in 1..A.nc |-> Abs(A.a[i][j])], A.nc)],
            A.nr)

\* an orthogonal n x n matrix of integers: the cyclic shift by k columns,
\* its first row negated when k > 0 (not symmetric for n >= 2, k = 1)
Rot(n, k) ==
    Mat(n, n, LAMBDA i, j :
        IF j = ((i - 1 + k) % n) + 1
        THEN (IF i = 1 /\ k > 0 THEN 0 - 1 ELSE 1)
        ELSE 0)

\* a Python frame or instance with no names bound
Empty == [n \in {} |-> 0]
None == [t |-> "None"]
Returned(op, v) == [op |-> op, exc |-> "none", value |-> v, args |-> <<>>]
Raised(op, e) == [op |-> op, exc |-> e, value |-> 0, args |-> <<>>]
NoResult == Returned("none", 0)

\* GFKMachine.__init__ without a file, lines 44-46
GFKMachine_init ==
    [source_machine |-> None, target_machine |-> None, K |-> None]

---------------------------------------------------------------------------
\* GFKTrainer._train_gfk

\* the (cosine, sine) pairs bob.math.gsvd may put on the diagonals of Gam
\* and Sig, in units of 1/GUnit; the last one breaks cos^2 + sin^2 = 1
CSPairs ==
    << [c |-> 5, s |-> 0], [c |-> 4, s |-> 3], [c |-> 3, s |-> 4],
       [c |-> 0, s |-> 5], [c |-> 5, s |-> 3] >>

\* an answer of the library: the shifts of V1 and V2, and the pairs on the
\* odd and on the even diagonal positions
GsvdChoices ==
    [k1 : 0..1, k2 : 0..1, odd : 1..Len(CSPairs), even : {1, 2, Len(CSPairs)}]

\* bob.math.gsvd(A, B) for A (p x n), B (q x n): V1 (p x p), V2 (q x q),
\* V (n x n), Gam (p x n), Sig (q x n)
gsvd(A, B, o) ==
    LET pair(i) == CSPairs[IF i % 2 = 1 THEN o.odd ELSE o.even]
    IN  [V1  |-> Rot(A.nr, o.k1),
         V2  |-> Rot(B.nr, o.k2),
         V   |-> Eye(A.nc),
         Gam |-> Mat(A.nr, A.nc, LAMBDA i, j : IF i = j THEN pair(i).c ELSE 0),
         Sig |-> Mat(B.nr, B.nc, LAMBDA i, j : IF i = j THEN pair(i).s ELSE 0)]

\* x / d < 1e-10 for integers x >= 0, d > 0, without leaving 32 bits:
\* x * 10^5 * 10^5 < d
Below1em10(x, d) ==
    x * 100000 < (d \div 100000) + (IF d % 100000 = 0 THEN 0 ELSE 1)

\* lines 209-211: sum(abs(I - (Gam^T.Gam + Sig^T.Sig))) < 1e-10, the
\* products being in units of 1/GUnit^2
SanityDeviation(V1, Gam, Sig) ==
    LET I == Mat(V1.nc, V1.nc, LAMBDA i, j : IF i = j THEN GUnit * GUnit ELSE 0)
        I_check == MAdd(Dot(Transpose(Gam), Gam), Dot(Transpose(Sig), Sig))
    IN  SumAbs(MSub(I, I_check))

SanityAssert(V1, Gam, Sig) ==
    Below1em10(SanityDeviation(V1, Gam, Sig), GUnit * GUnit)

\* numpy.arccos of a Gam entry, in units of 1/FP
Arccos(g) ==
    CASE g = 5 -> 0
      [] g = 4 -> 6435
      [] g = 3 -> 9273
      [] g = 0 -> 15708

\* numpy.sin(2 * theta) and numpy.cos(2 * theta), in units of 1/FP
Sin2(th) ==
    CASE th = 0 -> 0
      [] th = 6435 -> 9600
      [] th = 9273 -> 9600
      [] th = 15708 -> 0

Cos2(th) ==
    CASE th = 0 -> 10000
      [] th = 6435 -> 2800
      [] th = 9273 -> 0 - 2800
      [] th = 15708 -> 0 - 10000

\* Equation (6), lines 216-222
B1diag(theta, eps) ==
    [i \in DOMAIN theta |->
        (FP + (Sin2(theta[i]) * FP) \div (2 * Max(theta[i], eps))) \div 2]
B2diag(theta, eps) ==
    [i \in DOMAIN theta |->
        (((Cos2(theta[i]) - FP) * FP) \div (2 * Max(theta[i], eps))) \div 2]
B4diag(theta, eps) ==
    [i \in DOMAIN theta |->
        (FP - (Sin2(theta[i]) * FP) \div (2 * Max(theta[i], eps))) \div 2]

\* lines 225-227
Delta1(V1, V2, N, dim) ==
    VStack(HStack(V1, Zeros(dim, N - dim)), HStack(Zeros(N - dim, dim), V2))

\* lines 229-232
Delta2(B1, B2, B3, B4, N, dim) ==
    VStack(VStack(HStack(HStack(B1, B2), Zeros(dim, N - 2 * dim)),
                  HStack(HStack(B3, B4), Zeros(dim, N - 2 * dim))),
           Zeros(N - 2 * dim, N))

\* lines 234-236
Delta3NoTranspose(V1, V2, N, dim) ==
    VStack(HStack(V1, Zeros(dim, N - dim)), HStack(Zeros(N - dim, dim), V2))

Delta3(V1, V2, N, dim) ==
    Transpose(VStack(HStack(V1, Zeros(dim, N - dim)),
                     HStack(Zeros(N - dim, dim), V2)))

\* lines 213-241, in units of 1/FP
AssembleK(Ps, V1, V2, theta, eps, N, dim) ==
    LET B1 == Diag(B1diag(theta, eps), dim)
        B2 == Diag(B2diag(theta, eps), dim)
        B3 == B2
        B4 == Diag(B4diag(theta, eps), dim)
        delta1 == Delta1(V1, V2, N, dim)
        delta2 == Delta2(B1, B2, B3, B4, N, dim)
        delta3 == Delta3(V1, V2, N, dim)
        delta == Dot(Dot(delta1, delta2), delta3)
    IN  Dot(Dot(Ps, delta), Transpose(Ps))

\* lines 194-206: the call enters with Ps and Pt bound.  On an empty A
\* (dim = 0) a strict library raises.
GfkGsvd ==
    /\ pc = "gfk_enter"
    /\ LET N == gfk.Ps.nc
           dim == gfk.Pt.nc
           QPt == Dot(Transpose(gfk.Ps), gfk.Pt)
           A == RowsTo(QPt, dim)
           B == RowsFrom(QPt, dim)
           f == gsvd(A, B, lib.gsvd)
       IN  IF dim = 0 /\ lib.strict
           THEN /\ gfk' = gfk @@ [N |-> N, dim |-> dim]
                /\ pc' = "failed"
                /\ result' = Raised("train", "RuntimeError")
           ELSE /\ gfk' = [Ps |-> gfk.Ps, Pt |-> gfk.Pt, N |-> N, dim |-> dim,
                           V1 |-> f.V1, V2 |-> Neg(f.V2),
                           Gam |-> f.Gam, Sig |-> f.Sig]
                /\ pc' = "gfk_sanity"
                /\ result' = result
    /\ UNCHANGED <<optimize, trainer, lib, loc, machine, hdf5, loaded>>

\* lines 209-211: the assert statement holds, or python -O has compiled it
\* away and line 213 follows whatever the deviation is
GfkSanityPasses ==
    /\ pc = "gfk_sanity"
    /\ optimize \/ SanityAssert(gfk.V1, gfk.Gam, gfk.Sig)
    /\ pc' = "gfk_assemble"
    /\ UNCHANGED <<optimize, trainer, lib, loc, gfk, machine, hdf5, loaded, result>>

\* line 211 without -O: the assert statement raises
GfkSanityFails ==
    /\ pc = "gfk_sanity"
    /\ ~optimize
    /\ ~SanityAssert(gfk.V1, gfk.Gam, gfk.Sig)
    /\ pc' = "failed"
    /\ result' = Raised("train", "AssertionError")
    /\ UNCHANGED <<optimize, trainer, lib, loc, gfk, machine, hdf5, loaded>>

\* lines 213-241; numpy.zeros raises ValueError on a negative dimension
GfkAssemble ==
    /\ pc = "gfk_assemble"
    /\ LET theta == [i \in 1..gfk.dim |-> Arccos(Diagonal(gfk.Gam)[i])]
       IN  IF gfk.N - 2 * gfk.dim < 0
           THEN /\ gfk' = gfk @@ [theta |-> theta]
                /\ pc' = "failed"
                /\ result' = Raised("train", "ValueError")
           ELSE /\ gfk' = gfk @@ [theta |-> theta,
                                  K |-> AssembleK(gfk.Ps, gfk.V1, gfk.V2, theta,
                                                  trainer.eps, gfk.N, gfk.dim)]
                /\ pc' = "gfk_return"
                /\ result' = result
    /\ UNCHANGED <<optimize, trainer, lib, loc, machine, hdf5, loaded>>

---------------------------------------------------------------------------
\* null_space, lines 24-35

RECURSIVE Ascending(_)
Ascending(S) ==
    IF S = {} THEN <<>>
    ELSE LET m == CHOOSE x \in S : \A y \in S : x <= y
         IN  <<m>> \o Ascending(S \ {m})

\* scipy.linalg.svd(A) for an A (r x n, r <= n) whose rows are signed unit
\* vectors at distinct positions: the singular values are all 1, the rows
\* of A are right-singular vectors, and the unit vectors of the columns A
\* leaves free complete them, with the sign the library picks
svd(A, sign) ==
    LET free == Ascending({c \in 1..A.nc : \A i \in 1..A.nr : A.a[i][c] = 0})
        rest == Mat(Len(free), A.nc,
                    LAMBDA i, j : IF j = free[i] THEN sign ELSE 0)
    IN  [S |-> [i \in 1..Min(A.nr, A.nc) |-> 1], V |-> VStack(A, rest)]

\* the default eps = 1e-20 is below every representable positive value:
\* S <= eps is S <= 0 on the integers
null_space(A, sign) ==
    LET f == svd(A, sign)
        padding == Max(0, A.nc - Len(f.S))
        null_mask == [i \in 1..Len(f.S) + padding |->
                         IF i <= Len(f.S) THEN f.S[i] <= 0 ELSE TRUE]
        keep == Ascending({i \in DOMAIN null_mask : null_mask[i]})
        null_s == Mat(Len(keep), f.V.nc, LAMBDA i, j : f.V.a[keep[i]][j])
    IN  Transpose(null_s)

---------------------------------------------------------------------------
\* GFKTrainer._znorm, lines 266-276

Column(A, j) == [i \in 1..A.nr |-> A.a[i][j]]
\* numpy.average and numpy.std (ddof 0) of a column of m entries
Average(col, m) == Frac(SumUpTo(col, m), m)
Std(col, m) ==
    LET mu == Average(col, m)
        dev == [i \in 1..m |-> FSub(ToFloat(col[i]), mu)]
    IN  FSqrt(FDiv(FSum([i \in 1..m |-> FMul(dev[i], dev[i])], m), ToFloat(m)))

_znorm(data) ==
    LET mu == [j \in 1..data.nc |-> Average(Column(data, j), data.nr)]
        std == [j \in 1..data.nc |-> Std(Column(data, j), data.nr)]
    IN  [data |-> Mat(data.nr, data.nc,
                      LAMBDA i, j : FDiv(FSub(ToFloat(data.a[i][j]), mu[j]),
                                         std[j])),
         mu |-> mu, std |-> std]

HasNaN(A) == \E i \in 1..A.nr, j \in 1..A.nc : ~IsFinite(A.a[i][j])

---------------------------------------------------------------------------
\* GFKTrainer._train_pca, lines 243-264

\* PCATrainer.train(data): an orthonormal basis (n x n) and the variances
\* (length n, descending, non-negative); o is the library's answer
PCATrainer_train(data, o) ==
    [machine |-> [weights |-> Rot(data.nc, o.k),
                  input_subtract |-> [j \in 1..data.nc |-> ToFloat(0)],
                  input_divide |-> [j \in 1..data.nc |-> ToFloat(1)]],
     variances |-> [i \in 1..data.nc |-> o.var[i]]]

\* lines 252-257: the loop leaves index at the first position (from 0)
\* whose cumulated ratio exceeds the threshold, or at the last position.
\* With a zero sum every ratio is nan and no comparison holds.
KeptDim(variances, t) ==
    LET n == Len(variances)
        total == SumUpTo(variances, n)
        hits == {i \in 0..n - 1 :
                    total # 0 /\ SumUpTo(variances, i + 1) * t.den > t.num * total}
    IN  IF hits = {} THEN n - 1
        ELSE CHOOSE i \in hits : \A h \in hits : i <= h

_train_pca(data, mu_data, std_data, subspace_dim, o) ==
    LET t == PCATrainer_train(data, o)
        dim == IF subspace_dim.isfloat
               THEN KeptDim(t.variances, subspace_dim)
               ELSE subspace_dim.num
    IN  [weights |-> ColsTo(t.machine.weights, dim),
         input_subtract |-> mu_data,
         input_divide |-> std_data]

---------------------------------------------------------------------------
\* GFKTrainer.train, lines 164-187

\* the float and int values subspace_dim_source / _target take
FloatDim(n, d) == [isfloat |-> TRUE, num |-> n, den |-> d]
IntDim(n) == [isfloat |-> FALSE, num |-> n, den |-> 1]

\* data of two samples and D features; in "const" the first feature is
\* the same in both samples
DataKinds == {"a", "b", "const"}
Data(D, kind) ==
    Mat(2, D, LAMBDA i, j :
        CASE kind = "a" -> (IF i = 1 THEN 1 ELSE 3)
          [] kind = "b" -> (IF j % 2 = 1 THEN (IF i = 1 THEN 1 ELSE 5)
                                         ELSE (IF i = 1 THEN 5 ELSE 3))
          [] kind = "const" -> (IF j = 1 THEN 3 ELSE IF i = 1 THEN 1 ELSE 3))

\* lines 166-171
TrainZnorm ==
    /\ pc = "start"
    /\ \E D \in 2..MaxD, ks \in DataKinds, kt \in {"a", "const"} :
        /\ kt = "const" => ks = "a"
        /\ LET s == _znorm(Data(D, ks))
            t == _znorm(Data(D, kt))
           IN  loc' = [source |-> s.data, mu_source |-> s.mu,
                       std_source |-> s.std, target |-> t.data,
                       mu_target |-> t.mu, std_target |-> t.std]
    /\ pc' = "pca_source"
    /\ result' = NoResult
    /\ UNCHANGED <<optimize, trainer, lib, gfk, machine, hdf5, loaded>>

\* line 174; a strict library raises on data that is not finite
TrainPcaSource ==
    /\ pc = "pca_source"
    /\ IF HasNaN(loc.source) /\ lib.strict
       THEN /\ pc' = "failed"
            /\ result' = Raised("train", "RuntimeError")
            /\ loc' = loc
       ELSE /\ loc' = loc @@ [Ps |-> _train_pca(loc.source, loc.mu_source,
                                                loc.std_source,
                                                trainer.m_subspace_dim_source,
                                                lib.pcaS)]
            /\ pc' = "pca_target"
            /\ result' = result
    /\ UNCHANGED <<optimize, trainer, lib, gfk, machine, hdf5, loaded>>

\* line 176
TrainPcaTarget ==
    /\ pc = "pca_target"
    /\ IF HasNaN(loc.target) /\ lib.strict
       THEN /\ pc' = "failed"
            /\ result' = Raised("train", "RuntimeError")
            /\ loc' = loc
       ELSE /\ loc' = loc @@ [Pt |-> _train_pca(loc.target, loc.mu_target,
                                                loc.std_target,
                                                trainer.m_subspace_dim_target,
                                                lib.pcaT)]
            /\ pc' = "call_gfk"
            /\ result' = result
    /\ UNCHANGED <<optimize, trainer, lib, gfk, machine, hdf5, loaded>>

\* lines 179-180: the arguments of _train_gfk.  On an empty matrix (a basis
\* of no columns) a strict library raises in null_space.
TrainCallGfk ==
    /\ pc = "call_gfk"
    /\ IF loc.Ps.weights.nc = 0 /\ lib.strict
       THEN /\ pc' = "failed"
            /\ result' = Raised("train", "ValueError")
            /\ gfk' = gfk
       ELSE /\ gfk' = [Ps |-> HStack(loc.Ps.weights,
                                    null_space(Transpose(loc.Ps.weights),
                                               lib.svd)),
                       Pt |-> ColsTo(loc.Pt.weights,
                                     trainer.m_principal_angles_dimension)]
            /\ pc' = "gfk_enter"
            /\ result' = result
    /\ UNCHANGED <<optimize, trainer, lib, loc, machine, hdf5, loaded>>

\* lines 182-187
TrainReturn ==
    /\ pc = "gfk_return"
    /\ "Pt" \in DOMAIN loc
    /\ machine' = [GFKMachine_init EXCEPT !.source_machine = loc.Ps,
                                          !.target_machine = loc.Pt,
                                          !.K = gfk.K]
    /\ pc' = "trained"
    /\ loc' = Empty
    /\ gfk' = Empty
    /\ result' = Returned("train", 0)
    /\ UNCHANGED <<optimize, trainer, lib, hdf5, loaded>>

---------------------------------------------------------------------------
\* bob.io.base.HDF5File: paths are sequences of names, <<>> is the root

NewFile == [cwd |-> <<>>, groups |-> {}, data |-> Empty]
Ok(h) == [h |-> h, exc |-> "none"]
Fail(h, e) == [h |-> h, exc |-> e]
\* the next statement runs unless an exception is already on its way
Then(st, F(_)) == IF st.exc # "none" THEN st ELSE F(st.h)

Parent(path) == IF path = <<>> THEN <<>> ELSE SubSeq(path, 1, Len(path) - 1)
\* cd("..") and cd("/<group>")
Resolve(cwd, path) ==
    CASE path = ".." -> Parent(cwd)
      [] path = "/source_machine" -> <<"source_machine">>
      [] path = "/target_machine" -> <<"target_machine">>

cd(h, path) ==
    LET to == Resolve(h.cwd, path)
    IN  IF to = <<>> \/ to \in h.groups
        THEN Ok([h EXCEPT !.cwd = to])
        ELSE Fail(h, "RuntimeError")

create_group(h, name) ==
    LET g == h.cwd \o <<name>>
    IN  IF g \in h.groups
        THEN Fail(h, "RuntimeError")
        ELSE Ok([h EXCEPT !.groups = h.groups \cup {g}])

set(h, key, value) ==
    LET k == h.cwd \o <<key>>
    IN  Ok([h EXCEPT !.data =
               [q \in DOMAIN h.data \cup {k} |->
                   IF q = k THEN value ELSE h.data[q]]])

Has(h, key) == (h.cwd \o <<key>>) \in DOMAIN h.data
get(h, key) == h.data[h.cwd \o <<key>>]

IsNone(x) == DOMAIN x = {"t"}

\* bob.learn.linear.Machine.save(hdf5) and Machine(hdf5): the weights, the
\* mean and the scale, in the current group
Machine_save(m, h) ==
    IF IsNone(m) THEN Fail(h, "AttributeError")
    ELSE Then(set(h, "weights", m.weights), LAMBDA h1 :
         Then(set(h1, "input_sub", m.input_subtract), LAMBDA h2 :
              set(h2, "input_div", m.input_divide)))

Machine_load(h) ==
    [weights |-> get(h, "weights"),
     input_subtract |-> get(h, "input_sub"),
     input_divide |-> get(h, "input_div")]

Machine_loadable(h) ==
    Has(h, "weights") /\ Has(h, "input_sub") /\ Has(h, "input_div")

---------------------------------------------------------------------------
\* GFKMachine

\* what getattr finds on the class
ClassAttrs ==
    {"__init__", "load", "save", "shape", "compute_principal_angles",
     "compute_binetcouchy_distance", "__call__"}
HasAttr(self, name) == name \in DOMAIN self \/ name \in ClassAttrs

\* save without the last cd(".."): K lands in /target_machine
saveNoLastCd(self, h) ==
    Then(create_group(h, "source_machine"), LAMBDA h1 :
    Then(cd(h1, "/source_machine"), LAMBDA h2 :
    Then(Machine_save(self.source_machine, h2), LAMBDA h3 :
    Then(cd(h3, ".."), LAMBDA h4 :
    Then(create_group(h4, "target_machine"), LAMBDA h5 :
    Then(cd(h5, "/target_machine"), LAMBDA h6 :
    Then(Machine_save(self.target_machine, h6), LAMBDA h7 :
         set(h7, "K", self.K))))))))

\* lines 83-91
save(self, h) ==
    Then(create_group(h, "source_machine"), LAMBDA h1 :
    Then(cd(h1, "/source_machine"), LAMBDA h2 :
    Then(Machine_save(self.source_machine, h2), LAMBDA h3 :
    Then(cd(h3, ".."), LAMBDA h4 :
    Then(create_group(h4, "target_machine"), LAMBDA h5 :
    Then(cd(h5, "/target_machine"), LAMBDA h6 :
    Then(Machine_save(self.target_machine, h6), LAMBDA h7 :
    Then(cd(h7, ".."), LAMBDA h8 :
         set(h8, "K", self.K)))))))))

\* lines 62-71: [self, h, exc]
load(self, h) ==
    LET s1 == cd(h, "/source_machine")
        ok1 == s1.exc = "none" /\ Machine_loadable(s1.h)
        s2 == Then(s1, LAMBDA x : cd(x, ".."))
        s3 == Then(s2, LAMBDA x : cd(x, "/target_machine"))
        ok3 == s3.exc = "none" /\ Machine_loadable(s3.h)
        s4 == Then(s3, LAMBDA x : cd(x, ".."))
    IN  IF s1.exc # "none" THEN [self |-> self, h |-> s1.h, exc |-> s1.exc]
        ELSE IF ~ok1 THEN [self |-> self, h |-> s1.h, exc |-> "RuntimeError"]
        ELSE IF s3.exc # "none"
             THEN [self |-> [self EXCEPT !.source_machine = Machine_load(s1.h)],
                   h |-> s3.h, exc |-> s3.exc]
        ELSE IF ~ok3
             THEN [self |-> [self EXCEPT !.source_machine = Machine_load(s1.h)],
                   h |-> s3.h, exc |-> "RuntimeError"]
        ELSE IF ~Has(s4.h, "K")
             THEN [self |-> [self EXCEPT !.source_machine = Machine_load(s1.h),
                                         !.target_machine = Machine_load(s3.h)],
                   h |-> s4.h, exc |-> "RuntimeError"]
        ELSE [self |-> [source_machine |-> Machine_load(s1.h),
                        target_machine |-> Machine_load(s3.h),
                        K |-> get(s4.h, "K")],
              h |-> s4.h, exc |-> "none"]

\* numpy.linalg.svd(M)[1] for an M whose nonzero entries are +-1, at most
\* one in each row and column: as many ones as nonzero entries, then zeros
SingularValues(M) ==
    LET nnz == Cardinality({i \in 1..M.nr : \E j \in 1..M.nc : M.a[i][j] # 0})
    IN  [i \in 1..Min(M.nr, M.nc) |-> IF i <= nnz THEN 1 ELSE 0]

\* lines 109-116, in units of 1/FP
compute_principal_angles(self) ==
    IF IsNone(self.source_machine) \/ IsNone(self.target_machine)
    THEN Raised("compute_principal_angles", "AttributeError")
    ELSE LET Ps == self.source_machine.weights
             Pt == self.target_machine.weights
             S == SingularValues(Dot(Transpose(Ps), Pt))
             thetas_squared ==
                 [i \in DOMAIN S |->
                     (Arccos(GUnit * S[i]) * Arccos(GUnit * S[i])) \div FP]
         IN  Returned("compute_principal_angles",
                      SumUpTo(thetas_squared, Len(S)))

\* numpy.linalg.det, by expansion along the first row
RECURSIVE Det(_)
Det(A) ==
    IF A.nr = 0 THEN 1
    ELSE SumUpTo([j \in 1..A.nc |->
                     (IF j % 2 = 1 THEN 1 ELSE 0 - 1) * A.a[1][j]
                     * Det(Mat(A.nr - 1, A.nc - 1,
                               LAMBDA r, c :
                                   A.a[r + 1][IF c < j THEN c ELSE c + 1]))],
                 A.nc)

\* the value of lines 128-135 once Rs is given
BinetCauchy(Ps, Rs, Pt, Rt) ==
    LET Y1 == HStack(Ps, Rs)
        Y2 == HStack(Pt, Rt)
        d == Det(Dot(Transpose(Y1), Y2))
    IN  1 - d * d

\* lines 126-135: line 127 looks up self.space, which neither the instance
\* nor the class binds
compute_binetcouchy_distance(self, sign) ==
    IF IsNone(self.source_machine)
    THEN Raised("compute_binetcouchy_distance", "AttributeError")
    ELSE IF ~HasAttr(self, "space")
    THEN Raised("compute_binetcouchy_distance", "AttributeError")
    ELSE LET Ps == self.source_machine.weights
             Pt == self.target_machine.weights
         IN  Returned("compute_binetcouchy_distance",
                      BinetCauchy(Ps, self.space, Pt,
                                  null_space(Transpose(Pt), sign)))

\* lines 147-148: (x - input_subtract) / input_divide on a 1 x D row
Normalize(x, m) ==
    Mat(x.nr, x.nc,
        LAMBDA i, j : FDiv(FSub(ToFloat(x.a[i][j]), m.input_subtract[j]),
                           m.input_divide[j]))

\* lines 147-150: line 150 reads self.G, which nothing binds
call(self, source_domain_data, target_domain_data) ==
    IF IsNone(self.source_machine) \/ IsNone(self.target_machine)
    THEN Raised("__call__", "AttributeError")
    ELSE LET s == Normalize(source_domain_data, self.source_machine)
             t == Normalize(target_domain_data, self.target_machine)
         IN  IF ~HasAttr(self, "G")
             THEN Raised("__call__", "AttributeError")
             ELSE Returned("__call__",
                           FDot(FDot(s, Floats(self.G, FP)),
                                Transpose(t)).a[1][1])

\* line 100
shape(self) ==
    IF ~HasAttr(self, "G") THEN Raised("shape", "AttributeError")
    ELSE Returned("shape", self.G.nr)

---------------------------------------------------------------------------
\* The session: one trainer, the machine train() returns, one container.

\* train() has returned the machine (line 187)
Idle == pc = "trained"

Row(D, v) == Mat(1, D, LAMBDA i, j : v)
\* the feature dimensionality D of the machine
FeatureDim == machine.source_machine.weights.nr

\* machine(source_domain_data, target_domain_data)
Call ==
    /\ Idle
    /\ \E c \in {1, 3} :
        LET xs == Row(FeatureDim, c * 5)
            xt == Row(FeatureDim, 5)
        IN  result' = [call(machine, xs, xt) EXCEPT !.args = <<xs, xt>>]
    /\ UNCHANGED <<optimize, pc, trainer, lib, loc, gfk, machine, hdf5, loaded>>

PrincipalAngles ==
    /\ Idle
    /\ result' = compute_principal_angles(machine)
    /\ UNCHANGED <<optimize, pc, trainer, lib, loc, gfk, machine, hdf5, loaded>>

BinetCouchy ==
    /\ Idle
    /\ result' = compute_binetcouchy_distance(machine, lib.svd)
    /\ UNCHANGED <<optimize, pc, trainer, lib, loc, gfk, machine, hdf5, loaded>>

Shape ==
    /\ Idle
    /\ result' = shape(machine)
    /\ UNCHANGED <<optimize, pc, trainer, lib, loc, gfk, machine, hdf5, loaded>>

\* machine.save(hdf5)
Save ==
    /\ Idle
    /\ LET r == save(machine, hdf5)
       IN  /\ hdf5' = r.h
           /\ result' = IF r.exc = "none" THEN Returned("save", 0)
                        ELSE Raised("save", r.exc)
    /\ UNCHANGED <<optimize, pc, trainer, lib, loc, gfk, machine, loaded>>

\* a container written elsewhere: bases of 2 features, K of 3 x 3
ForeignFile ==
    LET m == [weights |-> ColsTo(Rot(2, 0), 1),
              input_subtract |-> [j \in 1..2 |-> ToFloat(2)],
              input_divide |-> [j \in 1..2 |-> ToFloat(1)]]
    IN  save([source_machine |-> m, target_machine |-> m, K |-> Zeros(3, 3)],
             NewFile).h

\* GFKMachine(hdf5), lines 43-49, on the session's container or on the
\* foreign one; an exception in __init__ leaves no object
Load ==
    /\ Idle
    /\ \E which \in {"own", "foreign"} :
        LET r == load(GFKMachine_init,
                      IF which = "own" THEN hdf5 ELSE ForeignFile)
        IN  /\ hdf5' = IF which = "own" THEN r.h ELSE hdf5
            /\ loaded' = IF r.exc = "none" THEN r.self ELSE Empty
            /\ result' = [(IF r.exc = "none" THEN Returned("load", 0)
                           ELSE Raised("load", r.exc))
                          EXCEPT !.args = <<which>>]
    /\ UNCHANGED <<optimize, pc, trainer, lib, loc, gfk, machine>>

\* the spectra PCATrainer answers with, MaxD long (a run uses the first D)
SlowSpectrum == [i \in 1..MaxD |-> Max(MaxVar + 1 - i, 0)]
SteepSpectrum == [i \in 1..MaxD |-> IF i = 1 THEN MaxVar ELSE IF i = 2 THEN 1 ELSE 0]

PcaAnswers == {[k |-> 0, var |-> SlowSpectrum], [k |-> 1, var |-> SteepSpectrum]}

GsvdAnswers ==
    {[k1 |-> 0, k2 |-> 0, odd |-> 1, even |-> 1],
     [k1 |-> 1, k2 |-> 1, odd |-> 2, even |-> 1],
     [k1 |-> 0, k2 |-> 1, odd |-> 3, even |-> 4],
     [k1 |-> 1, k2 |-> 0, odd |-> 5, even |-> 2]}

\* a lenient library answers on any input; a strict one raises on data
\* that is not finite and on empty matrices
LibAnswers ==
    {[pcaS |-> a, pcaT |-> b, svd |-> m[1], gsvd |-> g, strict |-> m[2]] :
        a \in PcaAnswers, b \in PcaAnswers, g \in GsvdAnswers,
        m \in {<<1, FALSE>>, <<0 - 1, TRUE>>}}

TrainerConfigs ==
    {[m_principal_angles_dimension |-> p, m_subspace_dim_source |-> d[1],
      m_subspace_dim_target |-> d[2], eps |-> 1] :
        p \in 1..MaxPAD,
        d \in {<<IntDim(2), IntDim(2)>>,
               <<FloatDim(6, 10), FloatDim(6, 10)>>,
               <<FloatDim(99, 100), IntDim(2)>>}}

\* the trainer is constructed; no GFKMachine exists before train() makes
\* one (line 182) and the container is new
Init ==
    /\ pc = "start"
    /\ trainer \in TrainerConfigs
    /\ lib \in LibAnswers
    /\ loc = Empty
    /\ gfk = Empty
    /\ machine = Empty
    /\ hdf5 = NewFile
    /\ loaded = Empty
    /\ result = NoResult
    /\ optimize \in BOOLEAN

Next ==
    \/ TrainZnorm \/ TrainPcaSource \/ TrainPcaTarget \/ TrainCallGfk
    \/ GfkGsvd \/ GfkSanityPasses \/ GfkSanityFails \/ GfkAssemble
    \/ TrainReturn
    \/ Call \/ PrincipalAngles \/ BinetCouchy \/ Shape \/ Save \/ Load

Spec == Init /\ [][Next]_vars

---------------------------------------------------------------------------
\* _train_pca on its own: every descending spectrum with entries up to
\* MaxVar, and the thresholds

Spectra ==
    {v \in [1..MaxD -> 0..MaxVar] : \A i \in 1..MaxD - 1 : v[i] >= v[i + 1]}

InitPca ==
    /\ pc = "pca_source"
    /\ trainer \in [m_principal_angles_dimension : {1},
                    m_subspace_dim_source :
                        {FloatDim(6, 10), FloatDim(1, 2), FloatDim(99, 100),
                         IntDim(1)},
                    m_subspace_dim_target : {IntDim(1)},
                    eps : {1}]
    /\ lib \in [pcaS : [k : {0}, var : Spectra], pcaT : PcaAnswers,
                svd : {1}, gsvd : GsvdAnswers, strict : {TRUE}]
    /\ \E D \in 2..MaxD, kind \in {"a", "const"} :
        LET s == _znorm(Data(D, kind))
        IN  loc = [source |-> s.data, mu_source |-> s.mu, std_source |-> s.std,
                   target |-> s.data, mu_target |-> s.mu, std_target |-> s.std]
    /\ gfk = Empty
    /\ machine = Empty
    /\ hdf5 = NewFile
    /\ loaded = Empty
    /\ result = NoResult
    /\ optimize \in BOOLEAN

SpecPca == InitPca /\ [][TrainPcaSource]_vars

---------------------------------------------------------------------------
\* _train_gfk on its own: the full bases and target blocks of the family,
\* every answer of the GSVD

EpsValues == {1, FP}

InitGfk ==
    /\ pc = "gfk_enter"
    /\ \E N \in 2..MaxD, dim \in 0..MaxPAD, k \in 0..MaxD - 1 :
        /\ dim <= N
        /\ k < N
        /\ gfk = [Ps |-> Rot(N, k), Pt |-> ColsTo(Rot(N, 0), dim)]
    /\ trainer \in [m_principal_angles_dimension : {MaxPAD},
                    m_subspace_dim_source : {IntDim(1)},
                    m_subspace_dim_target : {IntDim(1)},
                    eps : EpsValues]
    /\ lib \in [pcaS : {[k |-> 0, var |-> SlowSpectrum]},
                pcaT : {[k |-> 0, var |-> SlowSpectrum]},
                svd : {1}, gsvd : GsvdChoices, strict : BOOLEAN]
    /\ loc = Empty
    /\ machine = Empty
    /\ hdf5 = NewFile
    /\ loaded = Empty
    /\ result = NoResult
    /\ optimize \in BOOLEAN

NextGfk == GfkGsvd \/ GfkSanityPasses \/ GfkSanityFails \/ GfkAssemble

SpecGfk == InitGfk /\ [][NextGfk]_vars

---------------------------------------------------------------------------
\* The claims.

Trained == pc = "trained"
Scaled(c, A) == Mat(A.nr, A.nc, LAMBDA i, j : c * A.a[i][j])
IsSymmetric(A) == \A i \in 1..A.nr, j \in 1..A.nc : A.a[i][j] = A.a[j][i]

\* xs_n . K . xt_n^T with the K that train stored
KernelValue(m, xs, xt) ==
    FDot(FDot(Normalize(xs, m.source_machine), Floats(m.K, FP)),
         Transpose(Normalize(xt, m.target_machine))).a[1][1]

\* C1: on a machine returned by train, machine(xs, xt) does not fail and
\* returns xs_n . K . xt_n^T for the stored K.
CE_C1_CallReturnsKernelValue ==
    (Trained /\ result.op = "__call__") =>
        /\ result.exc = "none"
        /\ result.value = KernelValue(machine, result.args[1], result.args[2])

\* the smallest number of leading components whose cumulated variance
\* ratio is strictly above num/den
MinimalPrefixLen(variances, t) ==
    LET n == Len(variances)
        total == SumUpTo(variances, n)
    IN  CHOOSE d \in 1..n :
            /\ SumUpTo(variances, d) * t.den > t.num * total
            /\ \A e \in 1..d - 1 :
                   SumUpTo(variances, e) * t.den <= t.num * total

PcaVariances == [i \in 1..loc.source.nc |-> lib.pcaS.var[i]]

\* C2: with a float threshold t, _train_pca keeps the minimal prefix length
\* whose cumulated variance ratio strictly exceeds t.
CE_C2_KeepsMinimalPrefix ==
    (/\ pc = "pca_target"
     /\ trainer.m_subspace_dim_source.isfloat
     /\ SumUpTo(PcaVariances, Len(PcaVariances)) > 0) =>
        loc.Ps.weights.nc =
            MinimalPrefixLen(PcaVariances, trainer.m_subspace_dim_source)

\* C3: the kernel matrix _train_gfk assembles is symmetric, for every full
\* basis, every pair V1, V2 and every angle vector with N >= 2 * dim.
Thm_C3_KernelSymmetric ==
    "K" \in DOMAIN gfk => IsSymmetric(gfk.K)

Wit_C3_KernelSymmetric ==
    /\ "K" \in DOMAIN gfk
    /\ gfk.dim = 2
    /\ gfk.V1 # Transpose(gfk.V1)
    /\ gfk.V2 # Transpose(gfk.V2)
    /\ gfk.theta[1] # gfk.theta[2]
    /\ \E i \in 1..gfk.N, j \in 1..gfk.N : i # j /\ gfk.K.a[i][j] # 0

\* C4: machine(c * xs, xt) = c * machine(xs, xt), the subtraction of the
\* stored mean and the division by the stored scale included.
CE_C4_CallLinearInSource ==
    (Trained /\ result.op = "__call__") =>
        \A c \in {2, 3} :
            LET scaled == call(machine, Scaled(c, result.args[1]),
                               result.args[2])
            IN  /\ result.exc = "none"
                /\ scaled.exc = "none"
                /\ scaled.value = FMul(ToFloat(c), result.value)

SavedEntries ==
    {<<"K">>} \cup
    {<<g, e>> : g \in {"source_machine", "target_machine"},
                e \in {"weights", "input_sub", "input_div"}}

\* C5: a save into the empty container writes exactly the groups
\* source_machine and target_machine and the top-level entry K, and a load
\* that follows it succeeds and yields the machine's two bases and K.
Thm_C5_SaveLoadRoundTrip ==
    [][(result.op = "save" /\ result.exc = "none") =>
          /\ hdf5.groups = {<<"source_machine">>, <<"target_machine">>}
          /\ DOMAIN hdf5.data = SavedEntries
          /\ (result'.op = "load" /\ result'.args = <<"own">>) =>
                 (result'.exc = "none" /\ loaded' = machine)]_vars

Wit_C5_SaveLoadRoundTrip ==
    /\ result.op = "load"
    /\ result.args = <<"own">>
    /\ result.exc = "none"
    /\ loaded = machine
    /\ machine.K.nr >= 2
    /\ machine.source_machine.weights.nc >= 1

\* the container a load read from
FileRead == IF result.args = <<"own">> THEN hdf5 ELSE ForeignFile
KMismatch(f) ==
    /\ <<"K">> \in DOMAIN f.data
    /\ <<"source_machine", "weights">> \in DOMAIN f.data
    /\ <<"target_machine", "weights">> \in DOMAIN f.data
    /\ LET D == f.data[<<"source_machine", "weights">>].nr
           K == f.data[<<"K">>]
       IN  ~(K.nr = D /\ K.nc = D
             /\ f.data[<<"target_machine", "weights">>].nr = D)

\* C6: a load of a persisted state whose K is not D x D fails with a
\* CorruptStateError and makes no machine observable.
CE_C6_LoadRejectsMismatchedK ==
    (result.op = "load" /\ KMismatch(FileRead)) =>
        (result.exc = "CorruptStateError" /\ loaded = Empty)

HasZero(v) == \E j \in DOMAIN v : v[j] = ToFloat(0)

\* C7: a feature of zero standard deviation makes train fail with a
\* DegenerateInputError at the z-normalisation; no later stage runs.
CE_C7_ZeroStdRejected ==
    ("std_source" \in DOMAIN loc
     /\ (HasZero(loc.std_source) \/ HasZero(loc.std_target))) =>
        (pc = "failed" /\ result.exc = "DegenerateInputError")

\* C8: on a trained machine the Binet-Cauchy distance returns
\* 1 - det(Y1^T . Y2)^2, the null-space complement applied alike to the
\* source and to the target.
CE_C8_BinetCauchyReturns ==
    (Trained /\ result.op = "compute_binetcouchy_distance") =>
        /\ result.exc = "none"
        /\ result.value =
               BinetCauchy(machine.source_machine.weights,
                           null_space(Transpose(machine.source_machine.weights),
                                      lib.svd),
                           machine.target_machine.weights,
                           null_space(Transpose(machine.target_machine.weights),
                                      lib.svd))

\* C9: when every principal angle is 0 the blocks take their limits
\* (B1 = 1, B2 = B3 = 0) and K is Ps . Ps^T, for every positive eps.
CE_C9_ZeroAnglesGiveProjector ==
    ("K" \in DOMAIN gfk /\ gfk.dim >= 1
     /\ \A i \in 1..gfk.dim : gfk.theta[i] = 0) =>
        /\ \A i \in 1..gfk.dim :
               /\ B1diag(gfk.theta, trainer.eps)[i] = FP
               /\ B2diag(gfk.theta, trainer.eps)[i] = 0
        /\ gfk.K = Scaled(FP, Dot(ColsTo(gfk.Ps, gfk.dim),
                                  Transpose(ColsTo(gfk.Ps, gfk.dim))))

\* Gam^T.Gam + Sig^T.Sig = I, entry by entry
CosSinIdentity(Gam, Sig) ==
    \A i \in 1..Gam.nc, j \in 1..Gam.nc :
        SumUpTo([k \in 1..Gam.nr |-> Gam.a[k][i] * Gam.a[k][j]], Gam.nr)
        + SumUpTo([k \in 1..Sig.nr |-> Sig.a[k][i] * Sig.a[k][j]], Sig.nr)
        = (IF i = j THEN GUnit * GUnit ELSE 0)

\* C10: a GSVD answer that breaks the cosine/sine identity makes
\* _train_gfk fail at the check, before theta, the blocks or K exist, and
\* train returns no machine; K only ever comes from an answer that passed.
CE_C10_GsvdCertified ==
    ("Gam" \in DOMAIN gfk /\ ~CosSinIdentity(gfk.Gam, gfk.Sig)) =>
        /\ pc \in {"gfk_sanity", "failed"}
        /\ "theta" \notin DOMAIN gfk
        /\ "K" \notin DOMAIN gfk
        /\ pc = "failed" => result = Raised("train", "AssertionError")

====
